---- MODULE Spec2Model ----
(***************************************************************************)
(* A model of census_feature_vecs.py: the incremental fetch of ACS        *)
(* variables into a per-variable cache directory, the scan that finds the  *)
(* variables already cached for a year, and the long and wide merges of    *)
(* the cache into one dataset and a manifest.                              *)
(*                                                                         *)
(* Text is a sequence of symbols.  The symbols "." and "-" and the decimal *)
(* digits are the characters the code splits and parses on; every other    *)
(* symbol stands for a run of characters holding none of them.             *)
(***************************************************************************)
EXTENDS Integers, Sequences, FiniteSets, TLC

VARIABLES
    dir,            \* TEMP_DIR: file name -> [rows, ok]
    remote,         \* the remote source: variable id -> response rows
    CONCAT_TYPE,    \* "long" or "wide"
    run,            \* number of the current run of the script
    pc,             \* position of the script in the current run
    var_names,      \* list(set(...)) of line 164
    completed_vars, \* result of line 165
    i,              \* 1-based position of the fetch loop in var_names
    d,              \* the data frame of line 180, between query and write
    total,          \* accumulator of the merge
    variables,      \* list of variable names of the merge
    todo,           \* files of os.listdir(dir) the merge has not read yet
    out_data,       \* the consolidated dataset file ("absent" until written)
    out_vars,       \* the manifest file ("absent" until written)
    dir0,           \* history: dir when the run started
    queried,        \* history: variable id -> queries issued in this run
    failed,         \* history: variables whose query or write raised in this run
    written,        \* history: variables whose write returned in this run
    loaded,         \* history: the files read_feather returned for, in order
    raised_in,      \* history: where the run's uncaught exception came from
    torn,           \* history: truncated files -> what cut the write short
    prev_end,       \* history: how the previous run ended
    scan_year       \* the year the completion scan is asked for

vars == <<dir, remote, CONCAT_TYPE, run, pc, var_names, completed_vars, i, d,
          total, variables, todo, out_data, out_vars, dir0, queried, failed,
          written, loaded, raised_in, torn, prev_end, scan_year>>

-----------------------------------------------------------------------------
(* Bounds of the model *)

MaxRuns == 2
MaxInitFiles == 2
MaxScanFiles == 3

-----------------------------------------------------------------------------
(* Configuration *)

YEAR == 2021
OtherYear == YEAR - 1
GEOGRAPHY == "tract"
Years == {YEAR, OtherYear}

-----------------------------------------------------------------------------
(* Text *)

Digit == "0" :> 0 @@ "1" :> 1 @@ "2" :> 2 @@ "3" :> 3 @@ "4" :> 4 @@
         "5" :> 5 @@ "6" :> 6 @@ "7" :> 7 @@ "8" :> 8 @@ "9" :> 9

DigitSym == <<"0", "1", "2", "3", "4", "5", "6", "7", "8", "9">>

Range(s) == {s[k] : k \in DOMAIN s}

\* str(n) for n >= 0
RECURSIVE DecStr(_)
DecStr(n) ==
    IF n < 10 THEN <<DigitSym[n + 1]>>
    ELSE DecStr(n \div 10) \o <<DigitSym[(n % 10) + 1]>>

\* does sep occur in s at position k
OccursAt(s, sep, k) ==
    /\ k + Len(sep) - 1 <= Len(s)
    /\ \A j \in 1..Len(sep) : s[k + j - 1] = sep[j]

\* str.find: the first position of sep in s, 0 when there is none
Find(s, sep) ==
    LET hits == {k \in 1..Len(s) : OccursAt(s, sep, k)} IN
    IF hits = {} THEN 0 ELSE CHOOSE k \in hits : \A j \in hits : k <= j

\* str.split(sep)
RECURSIVE Split(_, _)
Split(s, sep) ==
    LET k == Find(s, sep) IN
    IF k = 0 THEN <<s>>
    ELSE <<SubSeq(s, 1, k - 1)>> \o Split(SubSeq(s, k + Len(sep), Len(s)), sep)

\* does int(s) return (an optional sign, then one or more digits)
IsInt(s) ==
    LET body == IF Len(s) > 0 /\ s[1] \in {"-", "+"} THEN Tail(s) ELSE s IN
    /\ Len(body) > 0
    /\ \A k \in 1..Len(body) : body[k] \in DOMAIN Digit

RECURSIVE DecVal(_)
DecVal(s) ==
    IF Len(s) = 0 THEN 0
    ELSE 10 * DecVal(SubSeq(s, 1, Len(s) - 1)) + Digit[s[Len(s)]]

\* int(s), for s with IsInt(s)
ParseInt(s) ==
    IF s[1] = "-" THEN 0 - DecVal(Tail(s))
    ELSE IF s[1] = "+" THEN DecVal(Tail(s))
    ELSE DecVal(s)

DOT == <<".">>
DASHES == <<"-", "-">>

-----------------------------------------------------------------------------
(* The completion scan *)

\* filename.split(".")[0]
Stem(filename) == Split(filename, DOT)[1]

\* lines 60-61: the parts of filename.split(".")[0].split("--")
Parts(filename) == Split(Stem(filename), DASHES)

\* does the loop body of get_completed_vars raise ValueError on a file with
\* these parts: the unpacking of line 61, or int(yr) of line 62
ScanRaises(parts) == Len(parts) # 2 \/ ~IsInt(parts[2])

\* the scan with the year test of line 62 left out
get_completed_vars_any_year(names, year) ==
    LET parts == [f \in names |-> Parts(f)] IN
    IF \E f \in names : ScanRaises(parts[f])
    THEN [raised |-> TRUE, value |-> {}]
    ELSE [raised |-> FALSE, value |-> {parts[f][1] : f \in names}]

\* the scan with the year test of line 62 turned round
get_completed_vars_other_years(names, year) ==
    LET parts == [f \in names |-> Parts(f)] IN
    IF \E f \in names : ScanRaises(parts[f])
    THEN [raised |-> TRUE, value |-> {}]
    ELSE [raised |-> FALSE,
          value |-> {parts[f][1] :
                        f \in {g \in names : ParseInt(parts[g][2]) # year}}]

\* get_completed_vars(dir, year) over the names os.listdir(dir) yields: the
\* first file that raises ends the scan, whatever the order of the listing
get_completed_vars(names, year) ==
    LET parts == [f \in names |-> Parts(f)] IN
    IF \E f \in names : ScanRaises(parts[f])
    THEN [raised |-> TRUE, value |-> {}]
    ELSE [raised |-> FALSE,
          value |-> {parts[f][1] :
                        f \in {g \in names : ParseInt(parts[g][2]) = year}}]

-----------------------------------------------------------------------------
(* The catalog, the remote source and the cache files *)

\* acs_vars: Name, Label and Predicate Type of every variable
acs_vars ==
    { [Name |-> <<"A">>, Label |-> "label A", PredicateType |-> "int"],
      [Name |-> <<"B">>, Label |-> "label B", PredicateType |-> "float"],
      [Name |-> <<"C">>, Label |-> "label C", PredicateType |-> "string"] }

\* the names line 164 keeps
Eligible == {v.Name : v \in {w \in acs_vars : w.PredicateType \in {"int", "float"}}}

\* acs_vars.loc[acs_vars.Name == var, "Label"].item()
LabelOf(var) == (CHOOSE v \in acs_vars : v.Name = var).Label

Row(s, g, v) == [state |-> s, tract |-> g, value |-> v]

\* responses of the remote source: geography units 101 and 102; 102 and 103;
\* tract 02 of state 1 in two counties; state 10, tract 1 beside state 1
Resp12 == <<Row(<<"1">>, <<"0", "1">>, "a1"), Row(<<"1">>, <<"0", "2">>, "a2")>>
Resp23 == <<Row(<<"1">>, <<"0", "2">>, "b2"), Row(<<"1">>, <<"0", "3">>, "b3")>>
RespTwice == <<Row(<<"1">>, <<"0", "2">>, "c2"), Row(<<"1">>, <<"0", "2">>, "c2'")>>
RespPad == <<Row(<<"1", "0">>, <<"1">>, "p1"), Row(<<"1">>, <<"0", "2">>, "p2")>>
RespOld == <<Row(<<"1">>, <<"0", "2">>, "o2")>>

RemoteChoices ==
    { [v \in Eligible |-> IF v = <<"A">> THEN Resp12 ELSE Resp23],
      [v \in Eligible |-> IF v = <<"A">> THEN Resp12 ELSE RespTwice],
      [v \in Eligible |-> IF v = <<"A">> THEN RespPad ELSE Resp12] }

\* get_acs_variable, given the response req of CensusObj.acs5.get
get_acs_variable(var_id, year, descr, req) ==
    [k \in 1..Len(req) |->
        [state |-> req[k].state, tract |-> req[k].tract, year |-> year,
         descr |-> descr, value |-> req[k].value]]

\* the file name of line 181
CacheFileName(var, year) == var \o DASHES \o DecStr(year) \o DOT \o <<"feather">>

\* a file feather.read_feather returns rows for
Readable(rows) == [rows |-> rows, ok |-> TRUE]
\* a file feather.read_feather raises on: truncated, or no feather file at all
Unreadable(rows) == [rows |-> rows, ok |-> FALSE]

\* names a cache directory may hold before the first run
CachedBefore ==
    { CacheFileName(<<"A">>, YEAR), CacheFileName(<<"B">>, YEAR),
      CacheFileName(<<"A">>, OtherYear),
      <<"B">> \o DASHES \o DecStr(OtherYear) \o DOT \o <<"csv">> }

OtherNames ==
    { <<"notes", ".", "txt">>,
      <<"A">> \o DASHES \o <<"B">> \o DASHES \o DecStr(YEAR) \o DOT \o <<"feather">>,
      <<"A">> \o DASHES \o <<"x">> \o DOT \o <<"feather">> }

\* what a file present before the first run may hold: what an earlier run
\* fetched, or, for a file that is no cache file, nothing read_feather reads
InitialContents(name) ==
    IF name \in CachedBefore
    THEN LET var == Parts(name)[1]
             year == ParseInt(Parts(name)[2])
         IN { Readable(get_acs_variable(var, year, LabelOf(var), RespOld)) }
    ELSE { Unreadable(<<>>) }

InitialDirs ==
    UNION { {f \in [names -> UNION {InitialContents(n) : n \in names}] :
                \A n \in names : f[n] \in InitialContents(n)} :
            names \in {ns \in SUBSET (CachedBefore \cup OtherNames) :
                          Cardinality(ns) <= MaxInitFiles} }

Names(directory) == DOMAIN directory

\* directory after the file name is (re)written with content c
WithFile(directory, name, c) ==
    [f \in DOMAIN directory \cup {name} |-> IF f = name THEN c ELSE directory[f]]

\* all orders of a finite set
Orders(S) ==
    {s \in [1..Cardinality(S) -> S] : \A a, b \in DOMAIN s : s[a] = s[b] => a = b}

-----------------------------------------------------------------------------
(* The script *)

SCRAPE_VARS == TRUE
CONCAT_VARS == TRUE

NoFrame == <<>>
\* total = None (line 134)
None == [columns |-> <<>>, rows |-> <<>>]
Absent == "absent"

Init ==
    /\ dir \in InitialDirs
    /\ remote \in RemoteChoices
    /\ CONCAT_TYPE \in {"long", "wide"}
    /\ run = 1
    /\ pc = "start"
    /\ var_names = <<>>
    /\ completed_vars = {}
    /\ i = 1
    /\ d = NoFrame
    /\ total = Absent
    /\ variables = <<>>
    /\ todo = {}
    /\ out_data = Absent
    /\ out_vars = Absent
    /\ dir0 = dir
    /\ queried = [v \in Eligible |-> 0]
    /\ failed = {}
    /\ written = {}
    /\ loaded = <<>>
    /\ raised_in = "none"
    /\ torn = <<>>
    /\ prev_end = "none"
    /\ scan_year = YEAR

\* lines 158-172: the catalog, the eligible names in the order list(set(..))
\* gives them, and the completion scan, which is not inside any try
Start ==
    /\ pc = "start"
    /\ \E order \in Orders(Eligible) : var_names' = order
    /\ LET r == get_completed_vars(Names(dir), scan_year) IN
        IF r.raised
        THEN /\ pc' = "raised"
             /\ raised_in' = "scan"
             /\ completed_vars' = {}
        ELSE /\ pc' = IF SCRAPE_VARS THEN "loop" ELSE "concat"
             /\ raised_in' = "none"
             /\ completed_vars' = r.value
    /\ i' = 1
    /\ dir0' = dir
    /\ UNCHANGED <<dir, remote, CONCAT_TYPE, run, d, total, variables, todo,
                   out_data, out_vars, queried, failed, written, loaded, torn, prev_end, scan_year>>

\* the variable the loop is at
Var == var_names[i]

\* line 175 with the test always false
NeverCompleted(var, completed) == FALSE

\* line 175: is the variable skipped
IsCompleted(var, completed) == var \in completed

\* feather.write_feather(d, fp) returning: the file holds d and nothing else
WriteFeather(directory, name, frame) == WithFile(directory, name, Readable(frame))

\* what a write that does not complete may leave under the name: the directory
\* as it was, or a truncated file
TornWrites(directory, name, frame) ==
    {directory} \cup
    {WithFile(directory, name, Unreadable(SubSeq(frame, 1, k))) : k \in 0..(Len(frame) - 1)}

\* history of the truncated files
Torn(directory, name, cause) ==
    IF name \in DOMAIN directory /\ ~directory[name].ok
    THEN [f \in DOMAIN torn \cup {name} |-> IF f = name THEN cause ELSE torn[f]]
    ELSE torn

\* a handler that lets the exception end the run
ExceptHandlerAbort == [pc |-> "raised", raised_in |-> "fetch"]

\* lines 184-186: print, then on to the next variable
ExceptHandler == [pc |-> "loop", raised_in |-> "none"]

\* line 174 when var_names is exhausted: on to the merge (line 193)
LoopExit ==
    /\ pc = "loop"
    /\ i > Len(var_names)
    /\ pc' = IF CONCAT_VARS THEN "concat" ELSE "done"
    /\ todo' = Names(dir)
    /\ total' = IF CONCAT_TYPE = "long" THEN <<>> ELSE None
    /\ variables' = <<>>
    /\ loaded' = <<>>
    /\ UNCHANGED <<dir, remote, CONCAT_TYPE, run, var_names, completed_vars, i, d,
                   out_data, out_vars, dir0, queried, failed, written, raised_in, torn, prev_end, scan_year>>

\* lines 175-176
Skip ==
    /\ pc = "loop"
    /\ i <= Len(var_names)
    /\ IsCompleted(Var, completed_vars)
    /\ i' = i + 1
    /\ UNCHANGED <<dir, remote, CONCAT_TYPE, run, pc, var_names, completed_vars, d,
                   total, variables, todo, out_data, out_vars, dir0, queried,
                   failed, written, loaded, raised_in, torn, prev_end, scan_year>>

\* line 177
Enter ==
    /\ pc = "loop"
    /\ i <= Len(var_names)
    /\ ~IsCompleted(Var, completed_vars)
    /\ pc' = "query"
    /\ UNCHANGED <<dir, remote, CONCAT_TYPE, run, var_names, completed_vars, i, d,
                   total, variables, todo, out_data, out_vars, dir0, queried,
                   failed, written, loaded, raised_in, torn, prev_end, scan_year>>

\* line 180, the remote query answering
QueryOk ==
    /\ pc = "query"
    /\ queried' = [queried EXCEPT ![Var] = @ + 1]
    /\ d' = get_acs_variable(Var, YEAR, LabelOf(Var), remote[Var])
    /\ pc' = "write"
    /\ UNCHANGED <<dir, remote, CONCAT_TYPE, run, var_names, completed_vars, i,
                   total, variables, todo, out_data, out_vars, dir0, failed,
                   written, loaded, raised_in, torn, prev_end, scan_year>>

\* line 180, the remote query raising
QueryRaises ==
    /\ pc = "query"
    /\ queried' = [queried EXCEPT ![Var] = @ + 1]
    /\ failed' = failed \cup {Var}
    /\ pc' = ExceptHandler.pc
    /\ raised_in' = ExceptHandler.raised_in
    /\ i' = i + 1
    /\ UNCHANGED <<dir, remote, CONCAT_TYPE, run, var_names, completed_vars, d,
                   total, variables, todo, out_data, out_vars, dir0, written, loaded, torn, prev_end, scan_year>>

\* lines 181-182, the write returning
WriteOk ==
    /\ pc = "write"
    /\ dir' = WriteFeather(dir, CacheFileName(Var, YEAR), d)
    /\ written' = written \cup {Var}
    /\ d' = NoFrame
    /\ i' = i + 1
    /\ pc' = "loop"
    /\ UNCHANGED <<remote, CONCAT_TYPE, run, var_names, completed_vars, total,
                   variables, todo, out_data, out_vars, dir0, queried, failed,
                   loaded, raised_in, torn, prev_end, scan_year>>

\* lines 181-182, the write raising
WriteRaises ==
    /\ pc = "write"
    /\ dir' \in TornWrites(dir, CacheFileName(Var, YEAR), d)
    /\ torn' = Torn(dir', CacheFileName(Var, YEAR), "raise")
    /\ failed' = failed \cup {Var}
    /\ d' = NoFrame
    /\ pc' = ExceptHandler.pc
    /\ raised_in' = ExceptHandler.raised_in
    /\ i' = i + 1
    /\ UNCHANGED <<remote, CONCAT_TYPE, run, var_names, completed_vars, total,
                   variables, todo, out_data, out_vars, dir0, queried, written, loaded, prev_end, scan_year>>

\* the process is terminated between variables or during a query
Kill ==
    /\ pc \in {"loop", "query"}
    /\ pc' = "killed"
    /\ UNCHANGED <<dir, remote, CONCAT_TYPE, run, var_names, completed_vars, i, d,
                   total, variables, todo, out_data, out_vars, dir0, queried,
                   failed, written, loaded, raised_in, torn, prev_end, scan_year>>

\* the process is terminated during the write of line 182
KillInWrite ==
    /\ pc = "write"
    /\ dir' \in TornWrites(dir, CacheFileName(Var, YEAR), d)
    /\ torn' = Torn(dir', CacheFileName(Var, YEAR), "kill")
    /\ pc' = "killed"
    /\ UNCHANGED <<remote, CONCAT_TYPE, run, var_names, completed_vars, i, d,
                   total, variables, todo, out_data, out_vars, dir0, queried,
                   failed, written, loaded, raised_in, prev_end, scan_year>>

-----------------------------------------------------------------------------
(* The merges *)

UNIQUE_ID == <<"unique_id">>
NaN == "NaN"

\* line 104 and line 137: filename.split("--")[0]
VariableName(filename) == Split(filename, DASHES)[1]

\* pd.concat(frames, axis=0)
RECURSIVE Flatten(_)
Flatten(frames) ==
    IF Len(frames) = 0 THEN <<>> ELSE Head(frames) \o Flatten(Tail(frames))

\* lines 109-111 keeping one row for each unique_id
LongFrameDedup(frame, variable_name) ==
    LET keep == SelectSeq([k \in DOMAIN frame |-> k],
                          LAMBDA k : \A j \in 1..(k - 1) :
                              frame[j].state \o frame[j].tract #
                              frame[k].state \o frame[k].tract)
    IN [n \in DOMAIN keep |->
            [value |-> frame[keep[n]].value,
             unique_id |-> frame[keep[n]].state \o frame[keep[n]].tract,
             variable |-> variable_name]]

\* lines 109-111: the frame a file contributes to the long merge
LongFrame(frame, variable_name) ==
    [k \in DOMAIN frame |->
        [value |-> frame[k].value,
         unique_id |-> frame[k].state \o frame[k].tract,
         variable |-> variable_name]]

\* lines 141-143: the frame a file contributes to the wide merge
WideFrame(frame, variable_name) ==
    [columns |-> <<variable_name, UNIQUE_ID>>,
     rows |-> [k \in DOMAIN frame |->
                (variable_name :> frame[k].value) @@
                (UNIQUE_ID :> (frame[k].state \o frame[k].tract))]]

\* line 146: d[["unique_id", variable_name]]
Seed(table, variable_name) ==
    [columns |-> <<UNIQUE_ID, variable_name>>, rows |-> table.rows]

\* the columns of left.merge(right, how="left", on="unique_id"): a column name
\* both sides have, other than the key, gets the suffixes _x and _y
Overlap(left, right) == (Range(left.columns) \cap Range(right.columns)) \ {UNIQUE_ID}
LeftName(left, right, c) == IF c \in Overlap(left, right) THEN c \o <<"_x">> ELSE c
RightName(left, right, c) == IF c \in Overlap(left, right) THEN c \o <<"_y">> ELSE c
RightColumns(right) == SelectSeq(right.columns, LAMBDA c : c # UNIQUE_ID)

MergedColumns(left, right) ==
    [k \in DOMAIN left.columns |-> LeftName(left, right, left.columns[k])] \o
    [k \in DOMAIN RightColumns(right) |->
        RightName(left, right, RightColumns(right)[k])]

\* one row of the result: the left row l beside the right row r
Joined(left, right, l, r, matched) ==
    [n \in Range(MergedColumns(left, right)) |->
        IF \E c \in Range(left.columns) : LeftName(left, right, c) = n
        THEN l[CHOOSE c \in Range(left.columns) : LeftName(left, right, c) = n]
        ELSE IF matched
             THEN r[CHOOSE c \in Range(RightColumns(right)) :
                        RightName(left, right, c) = n]
             ELSE NaN]

\* the rows of the result, in the order of the left rows
RECURSIVE MergedRows(_, _, _)
MergedRows(left, right, lrows) ==
    IF Len(lrows) = 0 THEN <<>>
    ELSE LET l == Head(lrows)
             matches == SelectSeq(right.rows,
                                  LAMBDA r : r[UNIQUE_ID] = l[UNIQUE_ID])
         IN (IF Len(matches) = 0
             THEN <<Joined(left, right, l, l, FALSE)>>
             ELSE [k \in DOMAIN matches |-> Joined(left, right, l, matches[k], TRUE)])
            \o MergedRows(left, right, Tail(lrows))

\* line 148: total.merge(d, how="left", on="unique_id")
Merge(left, right) ==
    [columns |-> MergedColumns(left, right),
     rows |-> MergedRows(left, right, left.rows)]

\* lines 145-148
WideStep(acc, table, variable_name) ==
    IF acc = None THEN Seed(table, variable_name) ELSE Merge(acc, table)

\* one pass of the loop of line 103 or line 136 over a file read_feather reads
ConcatStep ==
    /\ pc = "concat"
    /\ \E filename \in todo :
        /\ dir[filename].ok
        /\ variables' = Append(variables, VariableName(filename))
        /\ loaded' = Append(loaded, filename)
        /\ total' = IF CONCAT_TYPE = "long"
                    THEN Append(total, LongFrame(dir[filename].rows,
                                                 VariableName(filename)))
                    ELSE WideStep(total,
                                  WideFrame(dir[filename].rows, VariableName(filename)),
                                  VariableName(filename))
        /\ todo' = todo \ {filename}
    /\ UNCHANGED <<dir, remote, CONCAT_TYPE, run, pc, var_names, completed_vars, i,
                   d, out_data, out_vars, dir0, queried, failed, written, raised_in, torn, prev_end, scan_year>>

\* one pass of the loop over a file read_feather raises on (line 108, line 140):
\* the name is already in variables, and nothing catches the exception
ConcatReadRaises ==
    /\ pc = "concat"
    /\ \E filename \in todo :
        /\ ~dir[filename].ok
        /\ variables' = Append(variables, VariableName(filename))
        /\ todo' = todo \ {filename}
    /\ pc' = "raised"
    /\ raised_in' = "concat"
    /\ UNCHANGED <<dir, remote, CONCAT_TYPE, run, var_names, completed_vars, i, d,
                   total, out_data, out_vars, dir0, queried, failed, written, loaded, torn, prev_end, scan_year>>

\* the directory listing was empty: pd.concat([]) raises (line 119), and
\* write_feather(None, ..) raises (line 203)
ConcatNothing ==
    /\ pc = "concat"
    /\ todo = {}
    /\ variables = <<>>
    /\ pc' = "raised"
    /\ raised_in' = IF CONCAT_TYPE = "long" THEN "concat" ELSE "output"
    /\ UNCHANGED <<dir, remote, CONCAT_TYPE, run, var_names, completed_vars, i, d,
                   total, variables, todo, out_data, out_vars, dir0, queried,
                   failed, written, loaded, torn, prev_end, scan_year>>

\* lines 119-121 or 153, then lines 203-206: the dataset and the manifest
ConcatEnd ==
    /\ pc = "concat"
    /\ todo = {}
    /\ variables # <<>>
    /\ out_data' = IF CONCAT_TYPE = "long" THEN Flatten(total) ELSE total
    /\ out_vars' = variables
    /\ pc' = "done"
    /\ UNCHANGED <<dir, remote, CONCAT_TYPE, run, var_names, completed_vars, i, d,
                   total, variables, todo, dir0, queried, failed, written, loaded,
                   raised_in, torn, prev_end, scan_year>>

\* the script is started again on the same directory
NextRun ==
    /\ pc \in {"done", "raised", "killed"}
    /\ run < MaxRuns
    /\ run' = run + 1
    /\ pc' = "start"
    /\ var_names' = <<>>
    /\ completed_vars' = {}
    /\ i' = 1
    /\ d' = NoFrame
    /\ total' = Absent
    /\ variables' = <<>>
    /\ todo' = {}
    /\ dir0' = dir
    /\ queried' = [v \in Eligible |-> 0]
    /\ failed' = {}
    /\ written' = {}
    /\ loaded' = <<>>
    /\ raised_in' = "none"
    /\ prev_end' = pc
    /\ UNCHANGED <<dir, remote, CONCAT_TYPE, out_data, out_vars, torn, scan_year>>

Next ==
    \/ Start
    \/ LoopExit
    \/ Skip
    \/ Enter
    \/ QueryOk
    \/ QueryRaises
    \/ WriteOk
    \/ WriteRaises
    \/ Kill
    \/ KillInWrite
    \/ ConcatStep
    \/ ConcatReadRaises
    \/ ConcatNothing
    \/ ConcatEnd
    \/ NextRun

Spec == Init /\ [][Next]_vars

-----------------------------------------------------------------------------
(* The completion scan on its own: any directory of up to MaxScanFiles of the
   names below, scanned for either year *)

ScanNames ==
    {v \o DASHES \o DecStr(y) \o DOT \o e :
        v \in {w.Name : w \in acs_vars}, y \in Years,
        e \in {<<"feather">>, <<"csv">>, <<"tar", ".", "gz">>}}
    \cup OtherNames

InitScan ==
    /\ dir = <<>>
    /\ remote = [v \in Eligible |-> Resp12]
    /\ CONCAT_TYPE = "long"
    /\ run = 1
    /\ pc = "listing"
    /\ var_names = <<>>
    /\ completed_vars = {}
    /\ i = 1
    /\ d = NoFrame
    /\ total = Absent
    /\ variables = <<>>
    /\ todo = {}
    /\ out_data = Absent
    /\ out_vars = Absent
    /\ dir0 = dir
    /\ queried = [v \in Eligible |-> 0]
    /\ failed = {}
    /\ written = {}
    /\ loaded = <<>>
    /\ raised_in = "none"
    /\ torn = <<>>
    /\ prev_end = "none"
    /\ scan_year = YEAR

\* one more file is in the directory
AddFile ==
    /\ Cardinality(DOMAIN dir) < MaxScanFiles
    /\ \E n \in ScanNames \ DOMAIN dir : dir' = WithFile(dir, n, Unreadable(<<>>))
    /\ pc' = "listing"
    /\ completed_vars' = {}
    /\ raised_in' = "none"
    /\ UNCHANGED <<remote, CONCAT_TYPE, run, var_names, i, d, total, variables,
                   todo, out_data, out_vars, dir0, queried, failed, written,
                   loaded, torn, prev_end, scan_year>>

\* get_completed_vars(dir, year) is called
Scan ==
    /\ pc = "listing"
    /\ \E y \in Years :
        /\ scan_year' = y
        /\ LET r == get_completed_vars(Names(dir), y) IN
            /\ completed_vars' = r.value
            /\ raised_in' = IF r.raised THEN "scan" ELSE "none"
    /\ pc' = "scanned"
    /\ UNCHANGED <<dir, remote, CONCAT_TYPE, run, var_names, i, d, total,
                   variables, todo, out_data, out_vars, dir0, queried, failed,
                   written, loaded, torn, prev_end>>

NextScan == AddFile \/ Scan

SpecScan == InitScan /\ [][NextScan]_vars

-----------------------------------------------------------------------------
(* The naming convention <variable_id>--<year>.<ext>, stated by construction *)

Exts == {<<"feather">>, <<"csv">>, <<"tar", ".", "gz">>}
Ids == {v.Name : v \in acs_vars}

ConventionName(v, y, ext) == v \o DASHES \o DecStr(y) \o DOT \o ext

\* every name the convention gives, with its variable and year
ConventionNames ==
    {ConventionName(v, y, e) : v \in Ids, y \in Years, e \in Exts}

NamesOf ==
    [v \in Ids |-> [y \in Years |-> {ConventionName(v, y, e) : e \in Exts}]]

FollowsConvention(name) == name \in ConventionNames

\* the variables with a file of year y among the names
CachedFor(names, y) == {v \in Ids : NamesOf[v][y] \cap names # {}}

\* the variable a conventional name belongs to
IdOf(name) == CHOOSE v \in Ids : \E y \in Years : name \in NamesOf[v][y]

\* the file holds, readable, every row of the remote response for v
HoldsResponse(content, v) ==
    /\ content.ok
    /\ Len(content.rows) = Len(remote[v])
    /\ \A k \in DOMAIN content.rows :
        /\ content.rows[k].state = remote[v][k].state
        /\ content.rows[k].tract = remote[v][k].tract
        /\ content.rows[k].value = remote[v][k].value

\* the fetch phase of this run is over (not by the process being terminated)
FetchOver == pc \in {"concat", "done"} \/ (pc = "raised" /\ raised_in # "scan")

\* the merge of this run is over
MergeOver == pc = "done" \/ (pc = "raised" /\ raised_in \in {"concat", "output"})

\* the eligible variables cached for YEAR when the run started
S0 == CachedFor(DOMAIN dir0, YEAR) \cap Eligible

RECURSIVE SumRows(_)
SumRows(files) ==
    IF Len(files) = 0 THEN 0
    ELSE Len(dir[Head(files)].rows) + SumRows(Tail(files))

-----------------------------------------------------------------------------
(* The claims *)

\* C1: a run started on a directory holding files of year YEAR for the eligible
\* variables S0 queries no variable of S0, and every file of S0 keeps the
\* content it had when the run started.
C1_Resume ==
    /\ \A v \in Eligible : queried[v] > 0 => v \notin S0
    /\ \A v \in S0, e \in Exts :
        LET n == ConventionName(v, YEAR, e) IN
        n \in DOMAIN dir0 => n \in DOMAIN dir /\ dir[n] = dir0[n]

C1_Witness ==
    /\ pc = "done"
    /\ S0 # {}
    /\ \E w \in Eligible \ S0 : queried[w] = 1 /\ w \in written

\* C2: a query or a write raising for one variable does not end the fetch
\* phase: when the phase is over every variable that was not completed has been
\* attempted, and every variable whose write returned has its whole response
\* in the cache.
C2_Isolation ==
    FetchOver =>
        /\ \A v \in Eligible \ completed_vars : queried[v] = 1
        /\ \A v \in written :
            /\ CacheFileName(v, YEAR) \in DOMAIN dir
            /\ HoldsResponse(dir[CacheFileName(v, YEAR)], v)

C2_Witness ==
    /\ FetchOver
    /\ Len(var_names) >= 2
    /\ var_names[1] \in failed
    /\ var_names[2] \in written

\* C3: on a directory whose names all follow the convention, the scan for a
\* year returns exactly the variables that have a file of that year.
C3_Tracker ==
    (pc = "scanned" /\ \A n \in DOMAIN dir : FollowsConvention(n)) =>
        /\ raised_in = "none"
        /\ completed_vars = CachedFor(DOMAIN dir, scan_year)

C3_Witness ==
    /\ pc = "scanned"
    /\ DOMAIN dir = { ConventionName(<<"A">>, YEAR, <<"feather">>),
                      ConventionName(<<"B">>, OtherYear, <<"feather">>),
                      ConventionName(<<"A">>, OtherYear, <<"feather">>) }
    /\ scan_year = OtherYear
    /\ completed_vars = {<<"A">>, <<"B">>}
    /\ get_completed_vars(DOMAIN dir, YEAR).value = {<<"A">>}

\* C4: on a directory holding a name that does not follow the convention the
\* scan does not raise, and returns the variables that have a conventional
\* file of the year asked for.
C4_SkipMalformed ==
    (pc = "scanned" /\ \E n \in DOMAIN dir : ~FollowsConvention(n)) =>
        /\ raised_in = "none"
        /\ completed_vars = CachedFor(DOMAIN dir, scan_year)

\* C5: the wide result has one row for each distinct unique_id of the file
\* read first and no other row, at every point of the merge; its columns are
\* unique_id and then one column for each file read, named by the variable;
\* a later file's column holds the variable's value where the unique_id
\* matches and NaN where none does.
C5_WideJoin ==
    (CONCAT_TYPE = "wide" /\ pc \in {"concat", "done"} /\ loaded # <<>>) =>
        LET base == dir[loaded[1]].rows
            baseIds == {base[k].state \o base[k].tract : k \in DOMAIN base}
        IN /\ Len(total.rows) = Cardinality(baseIds)
           /\ {r[UNIQUE_ID] : r \in Range(total.rows)} = baseIds
           /\ total.columns =
                <<UNIQUE_ID>> \o [k \in DOMAIN loaded |-> IdOf(loaded[k])]
           /\ \A r \in Range(total.rows), k \in 2..Len(loaded) :
                LET rows == dir[loaded[k]].rows
                    m == {j \in DOMAIN rows :
                            rows[j].state \o rows[j].tract = r[UNIQUE_ID]}
                IN IF m = {} THEN r[IdOf(loaded[k])] = NaN
                   ELSE \E j \in m : r[IdOf(loaded[k])] = rows[j].value

\* C6: the long result is the per-file tables one after the other: every file
\* of the directory is read, the number of rows is the sum of the files' row
\* counts, every row has the fields unique_id, variable and value only, and
\* the rows of a file carry its variable, state ++ tract and its values.
C6_LongStack ==
    (CONCAT_TYPE = "long" /\ pc = "done") =>
        /\ Range(loaded) = DOMAIN dir
        /\ Len(out_data) = SumRows(loaded)
        /\ \A k \in DOMAIN out_data :
            DOMAIN out_data[k] = {"unique_id", "variable", "value"}
        /\ \A n \in DOMAIN loaded : \A j \in DOMAIN dir[loaded[n]].rows :
            LET r == out_data[SumRows(SubSeq(loaded, 1, n - 1)) + j]
                src == dir[loaded[n]].rows[j]
            IN /\ r.variable = IdOf(loaded[n])
               /\ r.unique_id = src.state \o src.tract
               /\ r.value = src.value

C6_Witness ==
    /\ CONCAT_TYPE = "long"
    /\ pc = "done"
    /\ Len(loaded) >= 2
    /\ \E a, b \in DOMAIN out_data :
        /\ a # b
        /\ out_data[a].unique_id = out_data[b].unique_id
        /\ out_data[a].variable = out_data[b].variable

\* C7: a merge over a directory holding a file that cannot be read and a file
\* that can ends with the outputs written, and the manifest names exactly the
\* variables of the files that were read.
C7_Manifest ==
    (/\ MergeOver
     /\ \E f \in DOMAIN dir : ~dir[f].ok
     /\ \E f \in DOMAIN dir : dir[f].ok) =>
        /\ pc = "done"
        /\ Range(loaded) = {f \in DOMAIN dir : dir[f].ok}
        /\ Range(out_vars) = {IdOf(f) : f \in {g \in DOMAIN dir : dir[g].ok}}

\* C8: in a second run on the same remote data every file that was there
\* when the run started keeps its content, and no file holds more than the
\* rows of one response.
C8_Idempotent ==
    run >= 2 =>
        /\ \A f \in DOMAIN dir0 : f \in DOMAIN dir /\ dir[f] = dir0[f]
        /\ \A f \in DOMAIN dir :
            (FollowsConvention(f) /\ IdOf(f) \in Eligible) =>
                \E resp \in {remote[IdOf(f)], RespOld} :
                    /\ Len(dir[f].rows) <= Len(resp)
                    /\ \A k \in DOMAIN dir[f].rows :
                        dir[f].rows[k].value = resp[k].value

C8_Witness ==
    /\ run = 2
    /\ pc = "done"
    /\ written # {}
    /\ \E v \in Eligible :
        /\ CacheFileName(v, YEAR) \in DOMAIN dir0
        /\ HoldsResponse(dir0[CacheFileName(v, YEAR)], v)

\* C9: in a run that follows a terminated run (no write having raised), the
\* scan reports an eligible variable completed exactly when a file of YEAR
\* holding a complete record set of it is there, so the run fetches exactly
\* the variables not completely written.
C9_Checkpoint ==
    (/\ run >= 2
     /\ prev_end = "killed"
     /\ pc \in {"loop", "query", "write", "concat", "done"}
     /\ \A f \in DOMAIN torn : torn[f] = "kill") =>
        \A v \in Eligible :
            v \in completed_vars <=>
                \E e \in Exts :
                    /\ ConventionName(v, YEAR, e) \in DOMAIN dir0
                    /\ dir0[ConventionName(v, YEAR, e)].ok

\* C10: in one run no variable is queried twice, and when the fetch phase is
\* over a variable whose query or write raised has no file of YEAR in the
\* directory, so that the next scan does not report it.
C10_Retry ==
    FetchOver =>
        /\ \A v \in Eligible : queried[v] <= 1
        /\ \A v \in failed :
            /\ v \notin CachedFor(DOMAIN dir, YEAR)
            /\ v \notin get_completed_vars(DOMAIN dir, YEAR).value

====
